---- MODULE Spec2Model ----
(***************************************************************************)
(* Model of UIDRemovalDetection.ino: a polling loop that locks onto one    *)
(* PICC, reports it, and reports its removal.  The sketch's globals        *)
(* (locked, rfid.uid), the locals of loop() and the position inside loop() *)
(* are the state; the MFRC522 driver and the cards in the antenna field    *)
(* are the environment.                                                    *)
(***************************************************************************)
EXTENDS Integers, Sequences, FiniteSets, TLC

VARIABLES
    locked,       \* bool locked                                  (line 44)
    uid,          \* rfid.uid: [size, uidByte]                    (line 42)
    pc,           \* position of the sketch: setup / inside loop()
    cardPresent,  \* local of loop()                              (line 60)
    result,       \* local of loop(): status of PICC_Select       (line 75)
    wakeup,       \* local result of PICC_IsAnyCardPresent: status of
                  \* PICC_WakeupA (line 130), until loop() has tested it
    field,        \* environment: the cards inside the antenna field
    noise,        \* environment: the RF link is disturbed
    calls,        \* driver calls issued so far by the current pass of loop()
    out,          \* Serial lines printed so far by the current pass
    lastEvent,    \* the most recent "locked!" / "unlocked!" line printed
    locked0,      \* value of locked when the current pass of loop() began
    uid0,         \* value of rfid.uid when the current pass of loop() began
    selUid,       \* rfid.uid as the last PICC_Select left it on return
    runLen,       \* number of consecutive finished passes that began locked
                  \* and whose PICC_Select returned STATUS_OK (capped)
    runUid,       \* rfid.uid at the beginning of that run
    runLines      \* number of Serial lines printed during that run (capped)

vars == <<locked, uid, pc, cardPresent, result, wakeup, field, noise, calls,
          out, lastEvent, locked0, uid0, selUid, runLen, runUid, runLines>>

\* ------------------------------------------------------------------ bounds
NumCards == 2
MaxRun == 2

\* ------------------------------------------------------------- environment
Cards == 1..NumCards

Min(a, b) == IF a < b THEN a ELSE b

\* The NUID of card 1 is 04 A2 3B 9C; the other cards differ in every byte.
BaseBytes == <<4, 162, 59, 156>>

\* ISO 14443 identifiers are 4, 7 or 10 bytes long.
CardSize(c) == <<4, 10, 7>>[((c - 1) % 3) + 1]

CardBytes(c) ==
    [i \in 1..CardSize(c) |-> (BaseBytes[((i - 1) % 4) + 1] + 17 * (c - 1)) % 256]

\* rfid.uid.uidByte of the freshly constructed global object.
ZeroBytes == [i \in 1..10 |-> 0]

\* rfid.uid of the freshly constructed global object.
NoUid == [size |-> 0, uidByte |-> ZeroBytes]

\* The first n bytes of src written over the front of buf.
Overwrite(buf, src, n) ==
    [i \in 1..Len(buf) |-> IF i <= n THEN src[i] ELSE buf[i]]

\* The identifier held in a Uid structure: its first size bytes.
Identifier(u) == SubSeq(u.uidByte, 1, u.size)

\* The cards in the field whose identifier is the one held in u.
Matching(u) == {c \in field : CardBytes(c) = Identifier(u)}

STATUS_OK == "STATUS_OK"
STATUS_COLLISION == "STATUS_COLLISION"
STATUS_TIMEOUT == "STATUS_TIMEOUT"
NotOk == {"STATUS_ERROR", STATUS_COLLISION, STATUS_TIMEOUT, "STATUS_CRC_WRONG"}

\* The local result before line 75 has run.
NoResult == "none"

\* rfid.GetStatusCodeName(result)
GetStatusCodeName(s) ==
    CASE s = STATUS_OK          -> "Success."
      [] s = "STATUS_ERROR"     -> "Error in communication."
      [] s = STATUS_COLLISION   -> "Collision detected."
      [] s = STATUS_TIMEOUT     -> "Timeout in communication."
      [] s = "STATUS_CRC_WRONG" -> "CRC_A does not match."

\* Statuses rfid.PICC_WakeupA can return with the field as it is.
WakeupOutcomes ==
    IF noise THEN NotOk
    ELSE IF field = {} THEN {STATUS_TIMEOUT}
    ELSE IF Cardinality(field) = 1 THEN {STATUS_OK}
    ELSE {STATUS_OK, STATUS_COLLISION}

\* What a failed PICC_Select may leave in the Uid structure it was given:
\* nothing, or some bytes (and possibly the length) of a card that answered.
Partial(u) ==
    {u} \cup
    UNION { { [size |-> s, uidByte |-> Overwrite(u.uidByte, CardBytes(c), 2)] :
                s \in {u.size, CardSize(c)} } : c \in field }

\* Outcomes [status, uid] of rfid.PICC_Select(&u, validBits) with the field as
\* it is.  validBits = 0 selects any card and returns its identifier;
\* otherwise the card holding the given identifier is re-selected.
SelectOutcomes(u, validBits) ==
    LET answering == IF validBits = 0 THEN field ELSE Matching(u)
        ok   == IF validBits = 0
                THEN { [status |-> STATUS_OK,
                        uid |-> [size |-> CardSize(c),
                                 uidByte |-> Overwrite(u.uidByte, CardBytes(c),
                                                       CardSize(c))]] :
                       c \in field }
                ELSE { [status |-> STATUS_OK, uid |-> u] : c \in answering }
        fail == { [status |-> s, uid |-> v] :
                    s \in (IF noise THEN NotOk ELSE {STATUS_TIMEOUT}),
                    v \in Partial(u) }
    IN  IF noise \/ answering = {} THEN fail ELSE ok

\* ------------------------------------------------------------ Serial output
\* Serial.print(n, HEX) for 0 <= n <= 15
HexDigit(n) ==
    <<"0", "1", "2", "3", "4", "5", "6", "7",
      "8", "9", "A", "B", "C", "D", "E", "F">>[n + 1]

\* printHex(buffer, bufferSize): the tokens printed, from byte i on.
RECURSIVE printHexFrom(_, _, _)
printHexFrom(buffer, bufferSize, i) ==
    IF i > bufferSize THEN <<>>
    ELSE <<HexDigit((buffer[i] \div 16) % 16), HexDigit(buffer[i] % 16), " ">>
         \o printHexFrom(buffer, bufferSize, i + 1)

RECURSIVE printHex_LowFirst(_, _)
\* printHex with the two nibbles of a byte printed low first.
printHex_LowFirst(buffer, bufferSize) ==
    IF bufferSize = 0 THEN <<>>
    ELSE printHex_LowFirst(buffer, bufferSize - 1)
         \o <<HexDigit(buffer[bufferSize] % 16),
              HexDigit((buffer[bufferSize] \div 16) % 16), " ">>

printHex(buffer, bufferSize) == printHexFrom(buffer, bufferSize, 1)

LockedPrefix == "locked! NUID tag: "
UnlockedPrefix == "unlocked! Reason for unlocking: "
Banner == "This code scan the MIFARE Classsic NUID and reports removal."

NoEvent == <<>>

\* ------------------------------------------------------------- driver calls
WriteTxMode == <<"PCD_WriteRegister", "TxModeReg", 0>>
WriteRxMode == <<"PCD_WriteRegister", "RxModeReg", 0>>
WriteModWidth == <<"PCD_WriteRegister", "ModWidthReg", 38>>
CallWakeup == <<"PICC_WakeupA">>
CallSelect(validBits) == <<"PICC_Select", validBits>>
CallHalt == <<"PICC_HaltA">>

\* Line 75 with size<<6 for size<<3: the byte parameter wraps.
ValidBits_Shift6(u) == (64 * u.size) % 256

\* Line 75 passing the length in bytes instead of bits.
ValidBits_Bytes(u) == u.size % 256

\* 8*rfid.uid.size as received by the byte parameter validBits
ValidBits(u) == (8 * u.size) % 256

\* -------------------------------------------------------------------- Init
Init ==
    /\ locked = FALSE
    /\ uid = NoUid
    /\ pc = "setup"
    /\ cardPresent = FALSE
    /\ result = NoResult
    /\ wakeup = NoResult
    /\ field \in SUBSET Cards
    /\ noise = FALSE
    /\ calls = <<>>
    /\ out = <<>>
    /\ lastEvent = NoEvent
    /\ locked0 = FALSE
    /\ uid0 = NoUid
    /\ selUid = NoUid
    /\ runLen = 0
    /\ runUid = NoUid
    /\ runLines = 0

envVars == <<field, noise>>
runVars == <<runLen, runUid, runLines>>

\* ------------------------------------------------------------------- setup
setup ==
    /\ pc = "setup"
    /\ uid' = [uid EXCEPT !.size = 0]
    /\ out' = <<  <<Banner>>  >>
    /\ pc' = "idle"
    /\ UNCHANGED <<locked, cardPresent, result, calls, lastEvent, locked0,
                   uid0, selUid>>
    /\ UNCHANGED wakeup
    /\ UNCHANGED envVars
    /\ UNCHANGED runVars

\* -------------------------------------------------------------------- loop
\* Line 60 guarded by !locked: the probe is skipped while a card is locked.
PICC_IsAnyCardPresent_UnlockedOnly ==
    /\ pc = "idle"
    /\ IF locked
       THEN /\ cardPresent' = FALSE
            /\ wakeup' = NoResult
            /\ calls' = <<>>
       ELSE /\ \E st \in WakeupOutcomes :
                  /\ wakeup' = st
                  /\ cardPresent' = (st = STATUS_OK \/ st = STATUS_COLLISION)
            /\ calls' = <<WriteTxMode, WriteRxMode, WriteModWidth, CallWakeup>>
    /\ out' = <<>>
    /\ locked0' = locked
    /\ uid0' = uid
    /\ pc' = "check"
    /\ result' = NoResult
    /\ selUid' = uid
    /\ UNCHANGED <<locked, uid, lastEvent>>
    /\ UNCHANGED envVars
    /\ UNCHANGED runVars

\* Lines 120-132 without the register writes of lines 125-128.
PICC_IsAnyCardPresent_NoReset ==
    /\ pc = "idle"
    /\ \E st \in WakeupOutcomes :
          /\ wakeup' = st
          /\ cardPresent' = (st = STATUS_OK \/ st = STATUS_COLLISION)
    /\ calls' = <<CallWakeup>>
    /\ out' = <<>>
    /\ locked0' = locked
    /\ uid0' = uid
    /\ pc' = "check"
    /\ result' = NoResult
    /\ selUid' = uid
    /\ UNCHANGED <<locked, uid, lastEvent>>
    /\ UNCHANGED envVars
    /\ UNCHANGED runVars

\* Line 131 accepting STATUS_OK only.
PICC_IsAnyCardPresent_OkOnly ==
    /\ pc = "idle"
    /\ \E st \in WakeupOutcomes :
          /\ wakeup' = st
          /\ cardPresent' = (st = STATUS_OK)
    /\ calls' = <<WriteTxMode, WriteRxMode, WriteModWidth, CallWakeup>>
    /\ out' = <<>>
    /\ locked0' = locked
    /\ uid0' = uid
    /\ pc' = "check"
    /\ result' = NoResult
    /\ selUid' = uid
    /\ UNCHANGED <<locked, uid, lastEvent>>
    /\ UNCHANGED envVars
    /\ UNCHANGED runVars

\* Line 60: PICC_IsAnyCardPresent() resets the three registers, wakes the
\* cards up and reports whether one answered.
PICC_IsAnyCardPresent ==
    /\ pc = "idle"
    /\ \E st \in WakeupOutcomes :
          /\ wakeup' = st
          /\ cardPresent' = (st = STATUS_OK \/ st = STATUS_COLLISION)
    /\ calls' = <<WriteTxMode, WriteRxMode, WriteModWidth, CallWakeup>>
    /\ out' = <<>>
    /\ locked0' = locked
    /\ uid0' = uid
    /\ pc' = "check"
    /\ result' = NoResult
    /\ selUid' = uid
    /\ UNCHANGED <<locked, uid, lastEvent>>
    /\ UNCHANGED envVars
    /\ UNCHANGED runVars

\* Lines 64-65 with the test on locked left out: return when nothing is
\* present.
EarlyReturn_AbsentOnly ==
    /\ pc = "check"
    /\ ~cardPresent
    /\ pc' = "idle"
    /\ runLen' = 0
    /\ runLines' = 0
    /\ runUid' = NoUid
    /\ UNCHANGED <<locked, uid, cardPresent, result, calls, out, lastEvent,
                   locked0, uid0, selUid>>
    /\ wakeup' = NoResult
    /\ UNCHANGED envVars

\* Lines 64-65: nothing locked and nothing present: return.
EarlyReturn ==
    /\ pc = "check"
    /\ ~locked /\ ~cardPresent
    /\ pc' = "idle"
    /\ runLen' = 0
    /\ runLines' = 0
    /\ runUid' = NoUid
    /\ UNCHANGED <<locked, uid, cardPresent, result, calls, out, lastEvent,
                   locked0, uid0, selUid>>
    /\ wakeup' = NoResult
    /\ UNCHANGED envVars

\* Line 75 reached without the early return of lines 64-65.
PICC_Select_NoEarlyReturn ==
    /\ pc = "check"
    /\ \E o \in SelectOutcomes(uid, ValidBits(uid)) :
          /\ result' = o.status
          /\ uid' = o.uid
          /\ selUid' = o.uid
    /\ calls' = Append(calls, CallSelect(ValidBits(uid)))
    /\ pc' = "transition"
    /\ UNCHANGED <<locked, cardPresent, out, lastEvent, locked0, uid0>>
    /\ wakeup' = NoResult
    /\ UNCHANGED envVars
    /\ UNCHANGED runVars

\* Line 75 with the known length left out: any card is selected.
PICC_Select_AnyCard ==
    /\ pc = "check"
    /\ ~(~locked /\ ~cardPresent)
    /\ \E o \in SelectOutcomes(uid, 0) :
          /\ result' = o.status
          /\ uid' = o.uid
          /\ selUid' = o.uid
    /\ calls' = Append(calls, CallSelect(0))
    /\ pc' = "transition"
    /\ UNCHANGED <<locked, cardPresent, out, lastEvent, locked0, uid0>>
    /\ wakeup' = NoResult
    /\ UNCHANGED envVars
    /\ UNCHANGED runVars

\* Line 75: rfid.PICC_Select(&rfid.uid, 8*rfid.uid.size)
PICC_Select ==
    /\ pc = "check"
    /\ ~(~locked /\ ~cardPresent)
    /\ \E o \in SelectOutcomes(uid, ValidBits(uid)) :
          /\ result' = o.status
          /\ uid' = o.uid
          /\ selUid' = o.uid
    /\ calls' = Append(calls, CallSelect(ValidBits(uid)))
    /\ pc' = "transition"
    /\ UNCHANGED <<locked, cardPresent, out, lastEvent, locked0, uid0>>
    /\ wakeup' = NoResult
    /\ UNCHANGED envVars
    /\ UNCHANGED runVars

\* Lines 77-83 with the test on result left out: any selection locks.
LockOn_AnyResult ==
    /\ pc = "transition"
    /\ ~locked
    /\ locked' = TRUE
    /\ LET line == <<LockedPrefix>> \o printHex(uid.uidByte, uid.size)
       IN  /\ out' = Append(out, line)
           /\ lastEvent' = line
    /\ pc' = "halt"
    /\ UNCHANGED <<uid, cardPresent, result, calls, locked0, uid0, selUid>>
    /\ UNCHANGED wakeup
    /\ UNCHANGED envVars
    /\ UNCHANGED runVars

\* Lines 77-83: a card was selected while nothing was locked.
LockOn ==
    /\ pc = "transition"
    /\ ~locked /\ result = STATUS_OK
    /\ locked' = TRUE
    /\ LET line == <<LockedPrefix>> \o printHex(uid.uidByte, uid.size)
       IN  /\ out' = Append(out, line)
           /\ lastEvent' = line
    /\ pc' = "halt"
    /\ UNCHANGED <<uid, cardPresent, result, calls, locked0, uid0, selUid>>
    /\ UNCHANGED wakeup
    /\ UNCHANGED envVars
    /\ UNCHANGED runVars

\* Lines 84-90 without line 87.
LockOff_KeepSize ==
    /\ pc = "transition"
    /\ locked /\ result # STATUS_OK
    /\ locked' = FALSE
    /\ LET line == <<UnlockedPrefix, GetStatusCodeName(result)>>
       IN  /\ out' = Append(out, line)
           /\ lastEvent' = line
    /\ pc' = "halt"
    /\ UNCHANGED <<uid, cardPresent, result, calls, locked0, uid0, selUid>>
    /\ UNCHANGED wakeup
    /\ UNCHANGED envVars
    /\ UNCHANGED runVars

\* Lines 84-90 printing a fixed reason instead of the status' name.
LockOff_FixedReason ==
    /\ pc = "transition"
    /\ locked /\ result # STATUS_OK
    /\ locked' = FALSE
    /\ uid' = [uid EXCEPT !.size = 0]
    /\ LET line == <<UnlockedPrefix, GetStatusCodeName(STATUS_TIMEOUT)>>
       IN  /\ out' = Append(out, line)
           /\ lastEvent' = line
    /\ pc' = "halt"
    /\ UNCHANGED <<cardPresent, result, calls, locked0, uid0, selUid>>
    /\ UNCHANGED wakeup
    /\ UNCHANGED envVars
    /\ UNCHANGED runVars

\* Lines 84-90 followed by a return: the halt of line 98 is skipped.
LockOff_Return ==
    /\ pc = "transition"
    /\ locked /\ result # STATUS_OK
    /\ locked' = FALSE
    /\ uid' = [uid EXCEPT !.size = 0]
    /\ LET line == <<UnlockedPrefix, GetStatusCodeName(result)>>
       IN  /\ out' = Append(out, line)
           /\ lastEvent' = line
    /\ pc' = "idle"
    /\ runLen' = 0
    /\ runLines' = 0
    /\ runUid' = NoUid
    /\ UNCHANGED <<cardPresent, result, calls, locked0, uid0, selUid>>
    /\ UNCHANGED wakeup
    /\ UNCHANGED envVars

\* Lines 84-90 with line 86 written locked==false: the flag stays set.
LockOff_FlagKept ==
    /\ pc = "transition"
    /\ locked /\ result # STATUS_OK
    /\ uid' = [uid EXCEPT !.size = 0]
    /\ LET line == <<UnlockedPrefix, GetStatusCodeName(result)>>
       IN  /\ out' = Append(out, line)
           /\ lastEvent' = line
    /\ pc' = "halt"
    /\ UNCHANGED <<locked, cardPresent, result, calls, locked0, uid0, selUid>>
    /\ UNCHANGED wakeup
    /\ UNCHANGED envVars
    /\ UNCHANGED runVars

\* Lines 84-90 followed by a jump back to line 75: another card is looked
\* for in the same pass.
LockOff_Reselect ==
    /\ pc = "transition"
    /\ locked /\ result # STATUS_OK
    /\ locked' = FALSE
    /\ uid' = [uid EXCEPT !.size = 0]
    /\ LET line == <<UnlockedPrefix, GetStatusCodeName(result)>>
       IN  /\ out' = Append(out, line)
           /\ lastEvent' = line
    /\ cardPresent' = TRUE
    /\ pc' = "check"
    /\ UNCHANGED <<result, calls, locked0, uid0, selUid>>
    /\ UNCHANGED wakeup
    /\ UNCHANGED envVars
    /\ UNCHANGED runVars

\* Lines 84-90: the locked card did not answer the selection.
LockOff ==
    /\ pc = "transition"
    /\ locked /\ result # STATUS_OK
    /\ locked' = FALSE
    /\ uid' = [uid EXCEPT !.size = 0]
    /\ LET line == <<UnlockedPrefix, GetStatusCodeName(result)>>
       IN  /\ out' = Append(out, line)
           /\ lastEvent' = line
    /\ pc' = "halt"
    /\ UNCHANGED <<cardPresent, result, calls, locked0, uid0, selUid>>
    /\ UNCHANGED wakeup
    /\ UNCHANGED envVars
    /\ UNCHANGED runVars

\* Lines 91-96 without line 95.
ClearStale_KeepSize ==
    /\ pc = "transition"
    /\ ~locked /\ result # STATUS_OK
    /\ pc' = "halt"
    /\ UNCHANGED <<locked, uid, cardPresent, result, calls, out, lastEvent,
                   locked0, uid0, selUid>>
    /\ UNCHANGED wakeup
    /\ UNCHANGED envVars
    /\ UNCHANGED runVars

\* Lines 91-96 followed by a return: the halt of line 98 is skipped.
ClearStale_Return ==
    /\ pc = "transition"
    /\ ~locked /\ result # STATUS_OK
    /\ uid' = [uid EXCEPT !.size = 0]
    /\ pc' = "idle"
    /\ runLen' = 0
    /\ runLines' = 0
    /\ runUid' = NoUid
    /\ UNCHANGED <<locked, cardPresent, result, calls, out, lastEvent,
                   locked0, uid0, selUid>>
    /\ UNCHANGED wakeup
    /\ UNCHANGED envVars

\* Lines 91-96 keeping the data when the failure is a collision.
ClearStale_ExceptCollision ==
    /\ pc = "transition"
    /\ ~locked /\ result # STATUS_OK
    /\ uid' = IF result = STATUS_COLLISION THEN uid
              ELSE [uid EXCEPT !.size = 0]
    /\ pc' = "halt"
    /\ UNCHANGED <<locked, cardPresent, result, calls, out, lastEvent,
                   locked0, uid0, selUid>>
    /\ UNCHANGED wakeup
    /\ UNCHANGED envVars
    /\ UNCHANGED runVars

\* Lines 84-96 with the two failure branches merged: "unlocked!" is printed
\* although nothing was locked.
ClearStale_Report ==
    /\ pc = "transition"
    /\ ~locked /\ result # STATUS_OK
    /\ uid' = [uid EXCEPT !.size = 0]
    /\ LET line == <<UnlockedPrefix, GetStatusCodeName(result)>>
       IN  /\ out' = Append(out, line)
           /\ lastEvent' = line
    /\ pc' = "halt"
    /\ UNCHANGED <<locked, cardPresent, result, calls, locked0, uid0, selUid>>
    /\ UNCHANGED wakeup
    /\ UNCHANGED envVars
    /\ UNCHANGED runVars

\* Lines 91-96: the selection failed while nothing was locked.
ClearStale ==
    /\ pc = "transition"
    /\ ~locked /\ result # STATUS_OK
    /\ uid' = [uid EXCEPT !.size = 0]
    /\ pc' = "halt"
    /\ UNCHANGED <<locked, cardPresent, result, calls, out, lastEvent,
                   locked0, uid0, selUid>>
    /\ UNCHANGED wakeup
    /\ UNCHANGED envVars
    /\ UNCHANGED runVars

\* Lines 77-83 with the test on locked left out: a successful selection
\* reports the card again.
StillLocked_Report ==
    /\ pc = "transition"
    /\ locked /\ result = STATUS_OK
    /\ LET line == <<LockedPrefix>> \o printHex(uid.uidByte, uid.size)
       IN  /\ out' = Append(out, line)
           /\ lastEvent' = line
    /\ pc' = "halt"
    /\ UNCHANGED <<locked, uid, cardPresent, result, calls, locked0, uid0,
                   selUid>>
    /\ UNCHANGED wakeup
    /\ UNCHANGED envVars
    /\ UNCHANGED runVars

\* Lines 77-96, no branch taken: the locked card answered the selection.
StillLocked ==
    /\ pc = "transition"
    /\ locked /\ result = STATUS_OK
    /\ pc' = "halt"
    /\ UNCHANGED <<locked, uid, cardPresent, result, calls, out, lastEvent,
                   locked0, uid0, selUid>>
    /\ UNCHANGED wakeup
    /\ UNCHANGED envVars
    /\ UNCHANGED runVars

\* Line 98: rfid.PICC_HaltA(), then loop() returns.
PICC_HaltA ==
    /\ pc = "halt"
    /\ calls' = Append(calls, CallHalt)
    /\ pc' = "idle"
    /\ IF locked0 /\ result = STATUS_OK
       THEN /\ runLen' = Min(runLen + 1, MaxRun)
            /\ runUid' = IF runLen = 0 THEN uid0 ELSE runUid
            /\ runLines' = Min(runLines + Len(out), 1)
       ELSE /\ runLen' = 0
            /\ runLines' = 0
            /\ runUid' = NoUid
    /\ UNCHANGED <<locked, uid, cardPresent, result, out, lastEvent,
                   locked0, uid0, selUid>>
    /\ UNCHANGED wakeup
    /\ UNCHANGED envVars

loop ==
    \/ PICC_IsAnyCardPresent
    \/ EarlyReturn
    \/ PICC_Select
    \/ LockOn
    \/ LockOff
    \/ ClearStale
    \/ StillLocked
    \/ PICC_HaltA

\* ------------------------------------------------------------- environment
CardEnters ==
    /\ \E c \in Cards \ field : field' = field \cup {c}
    /\ UNCHANGED <<locked, uid, pc, cardPresent, result, wakeup, noise, calls, out,
                   lastEvent, locked0, uid0, selUid>>
    /\ UNCHANGED runVars

CardLeaves ==
    /\ \E c \in field : field' = field \ {c}
    /\ UNCHANGED <<locked, uid, pc, cardPresent, result, wakeup, noise, calls, out,
                   lastEvent, locked0, uid0, selUid>>
    /\ UNCHANGED runVars

NoiseChanges ==
    /\ noise' = ~noise
    /\ UNCHANGED <<locked, uid, pc, cardPresent, result, wakeup, field, calls, out,
                   lastEvent, locked0, uid0, selUid>>
    /\ UNCHANGED runVars

Next ==
    \/ setup
    \/ loop
    \/ CardEnters
    \/ CardLeaves
    \/ NoiseChanges

Spec == Init /\ [][Next]_vars

\* loop() is called again as soon as it returns, and every driver call
\* returns.
FairSpec == Spec /\ WF_vars(setup \/ loop)

\* ------------------------------------------------- vocabulary of the claims
\* loop() has returned at least once and is not running.
TickDone == pc = "idle" /\ calls # <<>>

\* The pass of loop() that is running, or the one that last returned, has
\* called PICC_Select.
SelectAttempted == \E i \in 1..Len(calls) : calls[i][1] = "PICC_Select"

HaltCount == Cardinality({i \in 1..Len(calls) : calls[i] = CallHalt})

ProbeCalls == <<WriteTxMode, WriteRxMode, WriteModWidth, CallWakeup>>

Kind(line) == IF line = <<>> THEN "none" ELSE line[1]

HexValue(ch) == CHOOSE n \in 0..15 : HexDigit(n) = ch

\* The bytes read back from a "locked!" line: after the prefix, every byte is
\* two hexadecimal digits and a blank.
BytesOfLine(line) ==
    [i \in 1..((Len(line) - 1) \div 3) |->
        16 * HexValue(line[3 * i - 1]) + HexValue(line[3 * i])]

WellFormedLockedLine(line) ==
    /\ Kind(line) = LockedPrefix
    /\ (Len(line) - 1) % 3 = 0
    /\ \A i \in 1..((Len(line) - 1) \div 3) : line[3 * i + 1] = " "

\* ----------------------------------------------------------------------- C1
\* C1: whenever setup() or loop() has returned, a non-zero rfid.uid.size
\* implies locked.
C1_SizeImpliesLocked == pc = "idle" => (uid.size > 0 => locked)

C1_Witness == TickDone /\ uid.size > 0 /\ locked

\* ----------------------------------------------------------------------- C4
\* C4: a pass of loop() that began unlocked, found a card present and whose
\* PICC_Select returned STATUS_OK with identifier U ends locked, with U stored
\* and exactly one line printed: the "locked!" line listing U's bytes in order.
C4_LockOnSuccess ==
    (TickDone /\ ~locked0 /\ cardPresent /\ SelectAttempted /\ result = STATUS_OK)
    => /\ locked
       /\ uid = selUid
       /\ uid.size > 0
       /\ Len(out) = 1
       /\ WellFormedLockedLine(out[1])
       /\ BytesOfLine(out[1]) = Identifier(selUid)
       /\ lastEvent = out[1]

C4_Witness ==
    /\ TickDone /\ ~locked0 /\ cardPresent /\ SelectAttempted
    /\ result = STATUS_OK
    /\ Identifier(selUid) = BaseBytes

\* ----------------------------------------------------------------------- C5
\* C5: a pass of loop() that began locked and whose PICC_Select returned a
\* status R other than STATUS_OK ends unlocked with rfid.uid.size = 0 and
\* exactly one line printed: the "unlocked!" line carrying
\* GetStatusCodeName(R); the presence probe's answer plays no part.
C5_UnlockOnFailure ==
    (TickDone /\ locked0 /\ SelectAttempted /\ result # STATUS_OK)
    => /\ ~locked
       /\ uid.size = 0
       /\ out = << <<UnlockedPrefix, GetStatusCodeName(result)>> >>
       /\ lastEvent = out[1]

C5_Witness ==
    /\ TickDone /\ locked0 /\ SelectAttempted
    /\ result = "STATUS_CRC_WRONG"
    /\ cardPresent
    /\ ~locked

\* ----------------------------------------------------------------------- C6
\* C6: a pass of loop() that began unlocked, found a card present and whose
\* PICC_Select failed ends unlocked with rfid.uid.size = 0, whatever the
\* failed selection left in rfid.uid, and prints nothing.
C6_ClearOnFailure ==
    (TickDone /\ ~locked0 /\ cardPresent /\ SelectAttempted /\ result # STATUS_OK)
    => /\ ~locked
       /\ uid.size = 0
       /\ out = <<>>

C6_Witness ==
    /\ TickDone /\ ~locked0 /\ cardPresent /\ SelectAttempted
    /\ result # STATUS_OK
    /\ selUid.size > 0
    /\ selUid.uidByte # uid0.uidByte
    /\ uid.size = 0

\* ----------------------------------------------------------------------- C7
\* C7: after any number n >= 1 of consecutive passes of loop() that began
\* locked and whose PICC_Select returned STATUS_OK, nothing was printed and
\* locked and rfid.uid (length and bytes) are what they were before the first
\* of them.
C7_LockedOkIdempotent ==
    (pc = "idle" /\ runLen >= 1)
    => /\ locked
       /\ uid = runUid
       /\ runLines = 0

C7_Witness == pc = "idle" /\ runLen >= 2 /\ locked /\ uid = runUid

\* ----------------------------------------------------------------------- C8
\* C8: a pass of loop() that began unlocked and whose presence probe found no
\* card does not call PICC_Select, prints nothing and leaves locked and
\* rfid.uid as they were (unlocked, size 0).
C8_EarlyExitFrame ==
    (TickDone /\ ~locked0 /\ ~cardPresent)
    => /\ ~SelectAttempted
       /\ out = <<>>
       /\ ~locked
       /\ uid = uid0
       /\ uid.size = 0

C8_Witness ==
    /\ TickDone /\ ~locked0 /\ ~cardPresent
    /\ field # {}
    /\ uid.uidByte # ZeroBytes

\* ----------------------------------------------------------------------- C2
\* A card other than the one held in rfid.uid is in the field.
SecondCardPresent == \E c \in field : CardBytes(c) # Identifier(uid)

\* The step is a PICC_Select returning a failure, or the transition that
\* follows one.
SelectFails ==
    \/ pc = "check" /\ pc' = "transition" /\ result' # STATUS_OK
    \/ pc = "transition" /\ result # STATUS_OK

\* C2: while locked, with a second card in the field, no step other than a
\* failing selection of the stored identifier (and the unlocking it causes)
\* changes locked or rfid.uid or prints a line; and whenever loop() has
\* returned and the last line printed is a "locked!" line, the sketch is locked
\* and rfid.uid holds the identifier that line lists.
C2_SingleLockSlot ==
    /\ [][(locked /\ SecondCardPresent /\ ~SelectFails)
            => /\ locked'
               /\ uid' = uid
               /\ lastEvent' = lastEvent
               /\ (out' = out \/ out' = <<>>)]_vars
    /\ [](pc = "idle" /\ Kind(lastEvent) = LockedPrefix
            => /\ locked
               /\ WellFormedLockedLine(lastEvent)
               /\ BytesOfLine(lastEvent) = Identifier(uid))

C2_Witness ==
    /\ TickDone /\ locked0 /\ locked /\ SelectAttempted /\ result = STATUS_OK
    /\ runLen >= 2
    /\ Cardinality(field) >= 2
    /\ Kind(lastEvent) = LockedPrefix

\* ----------------------------------------------------------------------- C3
\* Exactly one card is in the field and the link is undisturbed.
OneCardSelectable == Cardinality(field) = 1 /\ ~noise

\* A card is locked that has left the field, and another card is alone in
\* the field and selectable.
HandOverStart ==
    /\ locked /\ uid.size > 0 /\ Matching(uid) = {}
    /\ OneCardSelectable

\* The removal has been reported.
RemovalReported == ~locked /\ Kind(lastEvent) = UnlockedPrefix

\* The card in the field is locked and the last line printed lists it.
LockedToFieldCard ==
    /\ locked /\ uid.size > 0 /\ Matching(uid) = field
    /\ WellFormedLockedLine(lastEvent)
    /\ BytesOfLine(lastEvent) = Identifier(uid)

\* C3: when the locked card has left the field and a second card stays in it,
\* alone and selectable, the sketch prints "unlocked!" and then locks onto
\* the second card and prints the "locked!" line with its identifier.  (The
\* card in the field cannot be replaced by another without the field holding
\* zero or two cards in between.)
C3_HandOver ==
    /\ HandOverStart ~> (RemovalReported \/ ~OneCardSelectable)
    /\ (RemovalReported /\ OneCardSelectable)
          ~> (LockedToFieldCard \/ ~OneCardSelectable)

\* Card 1 is locked and bytes 5.. of rfid.uid still hold card 2's identifier:
\* card 2 was the locked card before.
C3_Witness ==
    /\ pc = "idle" /\ LockedToFieldCard /\ field = {1} /\ ~noise
    /\ out = <<lastEvent>>
    /\ uid.uidByte[5] = CardBytes(2)[5]

\* ----------------------------------------------------------------------- C9
\* C9 as stated: every pass of loop() issues PICC_HaltA.
C9_HaltEveryTick == TickDone => HaltCount >= 1

\* C9 amended: a pass of loop() issues PICC_HaltA, once, exactly when it does
\* not take the early return of lines 64-65, whatever PICC_Select returned;
\* a pass that began unlocked and found no card issues none.
C9_HaltUnlessEarlyReturn ==
    TickDone =>
        /\ (locked0 \/ cardPresent) => HaltCount = 1 /\ SelectAttempted
        /\ (~locked0 /\ ~cardPresent) => HaltCount = 0

C9_Witness ==
    /\ TickDone /\ locked0 /\ ~cardPresent /\ result # STATUS_OK
    /\ HaltCount = 1

\* ---------------------------------------------------------------------- C10
\* C10 as stated: a pass of loop() that began locked issues no register
\* write and no wakeup.
C10_NoProbeWhenLocked ==
    (locked0 /\ pc # "idle")
    => \A i \in 1..Len(calls) :
          calls[i][1] # "PCD_WriteRegister" /\ calls[i] # CallWakeup

\* C10 amended: every pass of loop(), locked or not, begins with the presence
\* probe: the three register writes and the wakeup come before anything else,
\* and in a pass that began locked PICC_Select follows them whatever the probe
\* answered.
C10_ProbeEveryTick ==
    /\ pc \notin {"setup", "idle"}
          => Len(calls) >= 4 /\ SubSeq(calls, 1, 4) = ProbeCalls
    /\ (TickDone /\ locked0)
          => Len(calls) >= 5 /\ calls[5][1] = "PICC_Select"

C10_Witness ==
    /\ TickDone /\ locked0 /\ ~cardPresent /\ result = STATUS_OK
    /\ SubSeq(calls, 1, 4) = ProbeCalls
    /\ calls[5][1] = "PICC_Select"

\* ---------------------------------------------------------------------- C11
\* The validBits argument of the PICC_Select call of the current pass.
SelectBits == calls[5][2]

\* C11: every PICC_Select call passes 8 times the rfid.uid.size held when it
\* is made: 0 in a pass that began unlocked, the full bit length of the locked
\* identifier in a pass that began locked.
C11_KnownBitLength ==
    SelectAttempted =>
        /\ Len(calls) >= 5 /\ calls[5][1] = "PICC_Select"
        /\ SelectBits = 8 * uid0.size
        /\ ~locked0 => SelectBits = 0
        /\ locked0 => SelectBits = 8 * Len(Identifier(uid0)) /\ SelectBits > 0

C11_Witness ==
    /\ pc = "transition" /\ locked0 /\ SelectAttempted
    /\ uid0.size = 4 /\ SelectBits = 32

\* ---------------------------------------------------------------------- C12
\* C12: whenever setup() or loop() has returned, locked implies a non-zero
\* rfid.uid.size.
C12_LockedImpliesSize == (pc = "idle" /\ locked) => uid.size # 0

C12_Witness ==
    /\ TickDone /\ locked /\ ~locked0 /\ uid.size # 0
    /\ uid0.size = 0

\* ---------------------------------------------------------------------- C13
\* C13: a pass of loop() that began locked calls PICC_Select with the stored
\* identifier whatever the presence probe answered, and locked is cleared
\* only by the transition that follows a failed PICC_Select: at return the
\* sketch is still locked exactly when the selection returned STATUS_OK.
C13_SelectionDecidesUnlock ==
    /\ []((TickDone /\ locked0)
            => /\ SelectAttempted
               /\ SelectBits = 8 * uid0.size
               /\ uid0.size > 0
               /\ locked <=> result = STATUS_OK)
    /\ []((locked0 /\ pc = "check") => locked /\ uid = uid0)
    /\ [][(locked /\ ~locked') => (pc = "transition" /\ result \in NotOk)]_vars

C13_Witness ==
    /\ TickDone /\ locked0 /\ ~cardPresent /\ SelectAttempted
    /\ field # {}
    /\ result = STATUS_OK /\ locked

\* ---------------------------------------------------------------------- C14
\* C14: a pass of loop() that calls PICC_Select issues PICC_HaltA exactly
\* once, as its last driver call: no halt precedes the selection or the
\* transition, the transition and its line are complete when the halt is
\* issued, and the halt changes neither locked nor rfid.uid nor the output.
C14_HaltAfterTransition ==
    /\ [](pc \in {"check", "transition", "halt"} => HaltCount = 0)
    /\ [](pc = "halt"
            => /\ SelectAttempted
               /\ locked <=> result = STATUS_OK
               /\ ~locked => uid.size = 0
               /\ Len(out) = (IF locked # locked0 THEN 1 ELSE 0))
    /\ []((TickDone /\ SelectAttempted)
            => /\ HaltCount = 1
               /\ Len(calls) = 6
               /\ calls[5][1] = "PICC_Select"
               /\ calls[6] = CallHalt)
    /\ [][HaltCount' > HaltCount
            => /\ pc = "halt" /\ pc' = "idle"
               /\ UNCHANGED <<locked, uid, out, lastEvent>>]_vars

C14_Witness ==
    /\ TickDone /\ SelectAttempted /\ ~locked0 /\ result \in NotOk
    /\ HaltCount = 1 /\ calls[6] = CallHalt

\* ---------------------------------------------------------------------- C15
SelectCount ==
    Cardinality({i \in 1..Len(calls) : calls[i][1] = "PICC_Select"})

\* C15: a pass of loop() calls PICC_Select at most once; the pass in which
\* the selection of the locked card fails selects with the locked
\* identifier's length only, and a selection of any card (validBits 0) is
\* made only by a pass that began unlocked with rfid.uid.size = 0.
C15_OneSelectPerTick ==
    /\ SelectCount <= 1
    /\ (TickDone /\ locked0 /\ result \in NotOk)
          => /\ SelectCount = 1
             /\ SelectBits = 8 * uid0.size /\ SelectBits > 0
             /\ ~locked /\ uid.size = 0
    /\ (SelectAttempted /\ SelectBits = 0) => (~locked0 /\ uid0.size = 0)

\* A pass selects any card after an earlier pass has unlocked card 1: the
\* four bytes of card 1 are still in rfid.uid.uidByte, with size 0.
C15_Witness ==
    /\ TickDone /\ ~locked0 /\ uid0.size = 0
    /\ SubSeq(uid0.uidByte, 1, 4) = BaseBytes
    /\ Kind(lastEvent) = LockedPrefix /\ out = <<lastEvent>>
    /\ SelectCount = 1 /\ SelectBits = 0
    /\ locked /\ Identifier(uid) = CardBytes(2)

\* ---------------------------------------------------------------------- C16
\* C16: a pass of loop() whose PICC_Select returns a status other than
\* STATUS_OK always completes, and its outcome does not depend on which such
\* status it is: unlocked, rfid.uid.size = 0, the same six driver calls, and
\* either no line (it began unlocked) or the "unlocked!" line, in which only
\* the reason names the status.
C16_NotOkAlike ==
    /\ (pc = "transition" /\ result \in NotOk) => ENABLED (LockOff \/ ClearStale)
    /\ (pc = "halt" /\ result \in NotOk) => ENABLED PICC_HaltA
    /\ (TickDone /\ SelectAttempted /\ result \in NotOk)
          => /\ ~locked
             /\ uid.size = 0
             /\ calls = ProbeCalls \o <<CallSelect(8 * uid0.size), CallHalt>>
             /\ out = IF locked0
                      THEN << <<UnlockedPrefix, GetStatusCodeName(result)>> >>
                      ELSE <<>>

C16_Witness ==
    /\ TickDone /\ SelectAttempted /\ ~locked0
    /\ result = STATUS_COLLISION
    /\ selUid.size > 0

\* ---------------------------------------------------------------------- C17
\* C17: a PICC_WakeupA is always the fourth driver call of its pass, preceded
\* in that pass by the writes TxModeReg := 0x00, RxModeReg := 0x00 and
\* ModWidthReg := 0x26.
C17_ResetBeforeWakeup ==
    \A i \in 1..Len(calls) :
        calls[i][1] = "PICC_WakeupA"
        => /\ i = 4
           /\ calls[1] = <<"PCD_WriteRegister", "TxModeReg", 0>>
           /\ calls[2] = <<"PCD_WriteRegister", "RxModeReg", 0>>
           /\ calls[3] = <<"PCD_WriteRegister", "ModWidthReg", 2 * 16 + 6>>

C17_Witness ==
    /\ pc = "check" /\ locked
    /\ Len(calls) = 4 /\ calls[4][1] = "PICC_WakeupA"

\* ---------------------------------------------------------------------- C18
\* C18: the presence probe answers "present" exactly when PICC_WakeupA
\* returned STATUS_OK or STATUS_COLLISION; the same STATUS_COLLISION returned
\* by PICC_Select counts as a failure.
C18_PresentIffOkOrCollision ==
    /\ pc = "check"
          => /\ wakeup \in NotOk \cup {STATUS_OK}
             /\ cardPresent <=> wakeup \in {STATUS_OK, STATUS_COLLISION}
    /\ (pc = "halt" /\ result = STATUS_COLLISION) => ~locked /\ uid.size = 0

C18_Witness ==
    /\ pc = "check" /\ wakeup = STATUS_COLLISION /\ cardPresent /\ ~locked

\* ---------------------------------------------------------------------- C19
IsEvent(line) == Kind(line) \in {LockedPrefix, UnlockedPrefix}

EventCount == Cardinality({i \in 1..Len(out) : IsEvent(out[i])})

\* A line is printed by the step.
Prints == out' # out /\ out' # <<>>

\* C19: a pass of loop() prints at most one "locked!" / "unlocked!" line;
\* each such line is of the other kind than the one before it, the first
\* being "locked!"; and locked holds exactly when the last such line is
\* "locked!".
C19_EventsAlternate ==
    /\ [](EventCount <= 1)
    /\ [](locked <=> Kind(lastEvent) = LockedPrefix)
    /\ [](~locked <=> Kind(lastEvent) \in {"none", UnlockedPrefix})
    /\ [][(Prints /\ IsEvent(out'[Len(out')]))
            => /\ lastEvent' = out'[Len(out')]
               /\ Kind(lastEvent') # Kind(lastEvent)
               /\ Kind(lastEvent) = "none" => Kind(lastEvent') = LockedPrefix]_vars
    /\ [][lastEvent' # lastEvent => Prints]_vars

\* The third line of a run: a card is locked, after an "unlocked!" line was
\* printed for the four byte card, whose bytes were still in rfid.uid.
C19_Witness ==
    /\ pc = "halt" /\ ~locked0 /\ locked
    /\ uid0.size = 0 /\ SubSeq(uid0.uidByte, 1, 4) = BaseBytes
    /\ uid0.uidByte[5] = 0
    /\ out = <<lastEvent>> /\ Kind(lastEvent) = LockedPrefix

\* ---------------------------------------------------------------------- C20
\* C20: rfid.uid.size never exceeds 10, so the validBits argument of every
\* PICC_Select call is the untruncated product 8 * rfid.uid.size, at most 80.
C20_NoWrap ==
    /\ uid.size \in 0..10
    /\ 8 * uid.size < 256
    /\ SelectAttempted
          => /\ SelectBits = 8 * uid0.size
             /\ SelectBits <= 80
             /\ SelectBits \div 8 = uid0.size

C20_Witness ==
    /\ pc = "transition" /\ locked0 /\ uid0.size = 10
    /\ SelectBits = 80

====
